---- MODULE Spec2Model ----
(***************************************************************************)
(* ImbalancedDatasetSampler (src/ImbalancedDatasetSampler.py): a sampler   *)
(* that balances the classes of a labelled dataset by over- and            *)
(* undersampling.  The model covers the constructor (label resolution,     *)
(* class-size arithmetic, index building), __len__ and __iter__ together   *)
(* with the list iterators __iter__ hands out.                             *)
(*                                                                         *)
(* Dataset indices are 0-based as in the source; TLA+ sequences are        *)
(* 1-based, so class c of the source is entry c + 1 of `labels`.           *)
(* A float sampling factor is the exact rational num / den, and int(f * x) *)
(* is the integer quotient of num * x by den.  For den a power of two and  *)
(* the small sizes used here the float product of the source is exact.     *)
(* assert statements are active, as in a run without python -O.            *)
(***************************************************************************)
EXTENDS Integers, Sequences, FiniteSets, Bags, TLC

\* ------------------------------------------------------------------ bounds
\* Longest dataset handed to the constructor.
MaxLen == 5
\* Longest dataset in the specifications that also iterate.
IterLen == 3
\* Longest dataset in the specification whose passes overlap.
OverlapLen == 2
\* Largest number of classes handed to the constructor; the specifications that
\* iterate use one or two classes.
MaxClasses == 2
\* Number of __iter__ calls in one behaviour.
MaxPasses == 2
\* Float sampling factors are the multiples of 1/Den in [-MaxNum/Den, MaxNum/Den].
Den == 2
MaxNum == 4
\* Integer sampling factors are -1 .. MaxFixed.
MaxFixed == 4

VARIABLES
    args,         \* the constructor's arguments
    status,       \* "new": not constructed; "ok": constructed; "error": __init__ raised
    error,        \* the exception __init__ raised, "" if none
    num_classes,  \* self.num_classes
    shuffle,      \* self.__shuffle
    labels,       \* self.labels: per class, the dataset indices of the class
    class_size,   \* self.class_size
    indices,      \* self.__indices
    built,        \* the value __build_indices returned (history)
    len_result,   \* what the last __len__ call returned, -1 before the first
    iters,        \* the list iterators returned by __iter__ that are still held
    passes        \* number of __iter__ calls so far

vars == <<args, status, error, num_classes, shuffle, labels, class_size,
          indices, built, len_result, iters, passes>>

\* ------------------------------------------------------------------ values
Min(a, b) == IF a <= b THEN a ELSE b

RECURSIVE SeqMin(_)
SeqMin(s) == IF Len(s) = 1 THEN s[1] ELSE Min(s[1], SeqMin(Tail(s)))

RECURSIVE SeqMax(_)
SeqMax(s) == IF Len(s) = 1 THEN s[1]
             ELSE LET m == SeqMax(Tail(s)) IN IF s[1] >= m THEN s[1] ELSE m

\* seq without its entry at position i
RemoveAt(s, i) == SubSeq(s, 1, i - 1) \o SubSeq(s, i + 1, Len(s))

\* s * reps of Python: reps copies of s, none when reps <= 0
RECURSIVE Repeat(_, _)
Repeat(s, reps) == IF reps <= 0 THEN <<>> ELSE s \o Repeat(s, reps - 1)

\* sampling_factor values: None, a str, a float num/den, an int num
NoneFactor == [t |-> "none", s |-> "", num |-> 0, den |-> 1]
StrFactor(s) == [t |-> "str", s |-> s, num |-> 0, den |-> 1]
FloatFactor(n, d) == [t |-> "float", s |-> "", num |-> n, den |-> d]
IntFactor(n) == [t |-> "int", s |-> "", num |-> n, den |-> 1]

Factors ==
    {NoneFactor}
    \cup {StrFactor(s) : s \in {"oversampling", "undersampling", "other"}}
    \cup {FloatFactor(n, Den) : n \in -MaxNum .. MaxNum}
    \cup {IntFactor(n) : n \in -1 .. MaxFixed}

\* the datasets: the true label of every index, labels in [0, k)
Datasets(maxLen, classCounts) ==
    UNION {UNION {{[ds |-> d, k |-> k] : d \in [1 .. n -> 0 .. k - 1]}
                  : n \in 0 .. maxLen} : k \in classCounts}

\* the dataset indices whose label is c, ascending
RECURSIVE IndicesOf(_, _, _)
IndicesOf(ds, c, upto) ==
    IF upto = 0 THEN <<>>
    ELSE IndicesOf(ds, c, upto - 1) \o (IF ds[upto] = c THEN <<upto - 1>> ELSE <<>>)

\* a `labels` value: a flat list of class ids or a list of per-class index lists
FlatLabels(ds) == [kind |-> "flat", flat |-> ds, nested |-> <<>>]
NestedLabels(ds, k) ==
    [kind |-> "nested", flat |-> <<>>,
     nested |-> [c \in 1 .. k |-> IndicesOf(ds, c - 1, Len(ds))]]

\* the arguments that select how the labels are obtained
LabelArgs == {"none", "flat", "nested"}
CallbackTypes == {"single", "multi", "other"}

\* the factors of the specifications that iterate
IterFactors ==
    {StrFactor("oversampling"), StrFactor("undersampling"), IntFactor(2)}

\* ------------------------------------------------------------------ __init__
Raise(e) == [ok |-> FALSE, err |-> e]

\* lines 46-49: the string aliases
NormalizeFactor(f) ==
    IF f.t = "str" /\ f.s = "oversampling" THEN FloatFactor(1, 1)
    ELSE IF f.t = "str" /\ f.s = "undersampling" THEN FloatFactor(0, 1)
    ELSE f

\* lines 62-77: the labels the constructor works with
AcquireLabels(a) ==
    IF a.labels = "flat" THEN FlatLabels(a.ds)
    ELSE IF a.labels = "nested" THEN NestedLabels(a.ds, a.num_classes)
    ELSE IF ~a.callback \/ a.callback_type = "single" THEN FlatLabels(a.ds)
    ELSE NestedLabels(a.ds, a.num_classes)

PyLen(l) == IF l.kind = "flat" THEN Len(l.flat) ELSE Len(l.nested)

\* lines 79-92: self.labels
ResolveLabels(l, k, n) ==
    IF PyLen(l) = n
    THEN \* one entry per dataset index: self.labels[label].append(i)
         IF l.kind = "flat"
         THEN [ok |-> TRUE, classes |-> [c \in 1 .. k |-> IndicesOf(l.flat, c - 1, n)]]
         ELSE IF n = 0 THEN [ok |-> TRUE, classes |-> [c \in 1 .. k |-> <<>>]]
         ELSE Raise("TypeError")       \* a list used as a list index
    ELSE IF PyLen(l) # k THEN Raise("AssertionError")
    ELSE IF k = 0 THEN (IF n = 0 THEN [ok |-> TRUE, classes |-> <<>>]
                        ELSE Raise("AssertionError"))
    ELSE \* i = 0: self.labels[0] = cl[0]; sum += len(self.labels[0])
         IF l.kind = "flat" THEN Raise("TypeError")          \* int is not subscriptable
         ELSE IF Len(l.nested[1]) = 0 THEN Raise("IndexError") \* cl[0] of an empty list
         ELSE Raise("TypeError")                                \* len() of an int

Sizes(classes) == [c \in 1 .. Len(classes) |-> Len(classes[c])]

\* a variant of ComputeClassSize that rounds the interpolated size up
ComputeClassSizeCeil(f, min_size, max_size) ==
    IF f.t = "int"
    THEN IF f.num = 1 THEN Raise("NotImplementedError")
         ELSE [ok |-> TRUE, v |-> f.num]
    ELSE IF f.t # "float" THEN Raise("TypeError")
    ELSE IF 0 <= f.num /\ f.num <= f.den
         THEN [ok |-> TRUE,
               v |-> min_size + ((f.num * (max_size - min_size) + f.den - 1) \div f.den)]
    ELSE IF -f.den < f.num /\ f.num < 0
         THEN [ok |-> TRUE, v |-> (max_size * (-f.num)) \div f.den]
    ELSE IF f.num < -f.den
         THEN [ok |-> TRUE, v |-> (min_size * (-f.num)) \div f.den]
    ELSE Raise("NotImplementedError")

\* lines 98-118: self.class_size
ComputeClassSize(f, min_size, max_size) ==
    IF f.t = "int"
    THEN IF f.num = 1 THEN Raise("NotImplementedError")
         ELSE [ok |-> TRUE, v |-> f.num]
    ELSE IF f.t # "float" THEN Raise("TypeError")  \* 0.0 <= "a str"
    ELSE IF 0 <= f.num /\ f.num <= f.den
         THEN LET inter_class_distance == max_size - min_size
              IN [ok |-> TRUE, v |-> min_size + ((f.num * inter_class_distance) \div f.den)]
    ELSE IF -f.den < f.num /\ f.num < 0
         THEN [ok |-> TRUE, v |-> (max_size * (-f.num)) \div f.den]
    ELSE IF f.num < -f.den
         THEN [ok |-> TRUE, v |-> (min_size * (-f.num)) \div f.den]
    ELSE Raise("NotImplementedError")

\* a variant of SizeInRange without the range check
SizeUnchecked(cs, min_size, max_size) == TRUE

\* line 120
SizeInRange(cs, min_size, max_size) == cs <= max_size /\ cs >= min_size

\* a variant of Sample that draws with replacement
SampleWithReplacement(l, k) ==
    {[i \in 1 .. k |-> l[p[i]]] : p \in [1 .. k -> 1 .. Len(l)]}

\* random.sample(l, k): k entries of l at distinct positions, in any order
RECURSIVE Sample(_, _)
Sample(l, k) ==
    IF k = 0 THEN {<<>>}
    ELSE UNION {{<<l[i]>> \o r : r \in Sample(RemoveAt(l, i), k - 1)} : i \in 1 .. Len(l)}

\* lines 135-142: reps and sample of one class
Reps(n, cs) == IF n <= cs THEN cs \div n ELSE 0
SampleSize(n, cs) == IF n <= cs THEN cs % n ELSE cs

\* lines 131-144: does the loop body raise for this class
ClassRaises(class_l, cs) ==
    LET n == Len(class_l)
    IN IF n <= cs /\ n = 0 THEN "ZeroDivisionError"
       ELSE IF SampleSize(n, cs) < 0 \/ SampleSize(n, cs) > n THEN "ValueError"
       ELSE ""

\* line 144: new_ind, every outcome of the random sample
Emission(class_l, cs) ==
    LET n == Len(class_l)
    IN {Repeat(class_l, Reps(n, cs)) \o smp : smp \in Sample(class_l, SampleSize(n, cs))}

\* a variant of BuildFrom that reads class 0 for every class
RECURSIVE BuildFromFirstClass(_, _, _)
BuildFromFirstClass(classes, cs, c) ==
    IF c > Len(classes) THEN {<<>>}
    ELSE {e \o rest : e \in Emission(classes[1], cs),
                      rest \in BuildFromFirstClass(classes, cs, c + 1)}

\* lines 127-145: the loop over the classes from class c on
RECURSIVE BuildFrom(_, _, _)
BuildFrom(classes, cs, c) ==
    IF c > Len(classes) THEN {<<>>}
    ELSE {e \o rest : e \in Emission(classes[c], cs), rest \in BuildFrom(classes, cs, c + 1)}

RECURSIVE FirstRaise(_, _, _)
FirstRaise(classes, cs, c) ==
    IF c > Len(classes) THEN ""
    ELSE IF ClassRaises(classes[c], cs) # "" THEN ClassRaises(classes[c], cs)
    ELSE FirstRaise(classes, cs, c + 1)

\* a variant of BuildIndices that skips the classes without an index
NonEmpty(class_l) == Len(class_l) > 0

BuildIndicesSkipEmpty(classes, cs) ==
    LET present == SelectSeq(classes, NonEmpty)
    IN IF FirstRaise(present, cs, 1) # "" THEN Raise(FirstRaise(present, cs, 1))
       ELSE LET all == BuildFrom(present, cs, 1)
            IN IF \E ind \in all : Len(ind) # cs * Len(classes)
               THEN Raise("AssertionError")
               ELSE [ok |-> TRUE, outcomes |-> all]

\* lines 124-149: __build_indices, every outcome
BuildIndices(classes, cs) ==
    IF FirstRaise(classes, cs, 1) # "" THEN Raise(FirstRaise(classes, cs, 1))
    ELSE LET all == BuildFrom(classes, cs, 1)
         IN IF \E ind \in all : Len(ind) # cs * Len(classes) THEN Raise("AssertionError")
            ELSE [ok |-> TRUE, outcomes |-> all]

\* lines 43-122: what __init__ does up to the call of __build_indices
Prepare(a) ==
    IF a.sampling_factor.t = "none" THEN Raise("Exception")
    ELSE IF a.labels # "none" /\ a.callback THEN Raise("RuntimeError")
    ELSE IF a.callback_type \notin {"single", "multi"} THEN Raise("AssertionError")
    ELSE LET res == ResolveLabels(AcquireLabels(a), a.num_classes, Len(a.ds))
         IN IF ~res.ok THEN res
            ELSE IF Len(res.classes) = 0 THEN Raise("ValueError")   \* min([])
            ELSE LET min_size == SeqMin(Sizes(res.classes))
                     max_size == SeqMax(Sizes(res.classes))
                     cs == ComputeClassSize(NormalizeFactor(a.sampling_factor),
                                            min_size, max_size)
                 IN IF ~cs.ok THEN cs
                    ELSE IF ~SizeInRange(cs.v, min_size, max_size)
                         THEN Raise("AssertionError")
                    ELSE [ok |-> TRUE, classes |-> res.classes, class_size |-> cs.v]

Fail(e) ==
    /\ status' = "error"
    /\ error' = e
    /\ UNCHANGED <<num_classes, shuffle, labels, class_size, indices, built>>

\* ImbalancedDatasetSampler(dataset, num_classes, shuffle, sampling_factor, ...)
Construct ==
    /\ status = "new"
    /\ LET p == Prepare(args)
       IN IF ~p.ok THEN Fail(p.err)
          ELSE LET b == BuildIndices(p.classes, p.class_size)
               IN IF ~b.ok THEN Fail(b.err)
                  ELSE \E ind \in b.outcomes :
                         /\ status' = "ok"
                         /\ error' = ""
                         /\ num_classes' = args.num_classes
                         /\ shuffle' = args.shuffle
                         /\ labels' = p.classes
                         /\ class_size' = p.class_size
                         /\ indices' = ind
                         /\ built' = ind
    /\ UNCHANGED <<args, len_result, iters, passes>>

\* ------------------------------------------------------------------ __len__
LenValue == class_size * num_classes

CallLen ==
    /\ status = "ok"
    /\ len_result' = LenValue
    /\ UNCHANGED <<args, status, error, num_classes, shuffle, labels, class_size,
                   indices, built, iters, passes>>

\* ------------------------------------------------------------------ __iter__
\* a variant of Shuffle that loses one entry
ShuffleDropsOne(x) == IF Len(x) = 0 THEN {x} ELSE Sample(x, Len(x) - 1)

\* random.shuffle(x): every arrangement of the entries of x
Shuffle(x) == Sample(x, Len(x))

NewIterator == [pos |-> 0, out |-> <<>>, done |-> FALSE]

Live(it) == ~it.done

\* a variant of CallIter that shuffles whatever the flag says
CallIterAlwaysShuffles ==
    /\ status = "ok"
    /\ passes < MaxPasses
    /\ indices' \in Shuffle(indices)
    /\ iters' = Append(SelectSeq(iters, Live), NewIterator)
    /\ passes' = passes + 1
    /\ UNCHANGED <<args, status, error, num_classes, shuffle, labels, class_size,
                   built, len_result>>

\* __iter__: shuffle in place if enabled, return iter(self.__indices).
\* Iterators that are exhausted have been dropped by their consumer.
CallIter ==
    /\ status = "ok"
    /\ passes < MaxPasses
    /\ indices' \in (IF shuffle THEN Shuffle(indices) ELSE {indices})
    /\ iters' = Append(SelectSeq(iters, Live), NewIterator)
    /\ passes' = passes + 1
    /\ UNCHANGED <<args, status, error, num_classes, shuffle, labels, class_size,
                   built, len_result>>

\* a pass begins only when every earlier pass has run to completion
CallIterSequential ==
    /\ \A i \in 1 .. Len(iters) : iters[i].done
    /\ CallIter

\* at most two passes are under way at once
CallIterOverlapping ==
    /\ Cardinality({i \in 1 .. Len(iters) : ~iters[i].done}) <= 1
    /\ CallIter

\* a variant of Advance that stops one entry early
AdvanceStopsEarly(it, list) ==
    IF it.pos < Len(list) - 1
    THEN [pos |-> it.pos + 1, out |-> Append(it.out, list[it.pos + 1]), done |-> FALSE]
    ELSE [it EXCEPT !.done = TRUE]

\* next() on a list iterator: the entry at its position in the list as it is now
Advance(it, list) ==
    IF it.pos < Len(list)
    THEN [pos |-> it.pos + 1, out |-> Append(it.out, list[it.pos + 1]), done |-> FALSE]
    ELSE [it EXCEPT !.done = TRUE]

IterNext ==
    /\ status = "ok"
    /\ \E i \in 1 .. Len(iters) :
         /\ ~iters[i].done
         /\ iters' = [iters EXCEPT ![i] = Advance(iters[i], indices)]
    /\ UNCHANGED <<args, status, error, num_classes, shuffle, labels, class_size,
                   indices, built, len_result, passes>>

\* ------------------------------------------------------------------ specifications
DrawArgs(datasets, shuffles, factors, labelArgs, callbackArgs, callbackTypes) ==
    \E d \in datasets, sh \in shuffles, f \in factors, l \in labelArgs,
       cb \in callbackArgs, ct \in callbackTypes :
        args = [ds |-> d.ds, num_classes |-> d.k, shuffle |-> sh, sampling_factor |-> f,
                labels |-> l, callback |-> cb, callback_type |-> ct]

NotConstructed ==
    /\ status = "new"
    /\ error = ""
    /\ num_classes = 0
    /\ shuffle = FALSE
    /\ labels = <<>>
    /\ class_size = 0
    /\ indices = <<>>
    /\ built = <<>>
    /\ len_result = -1
    /\ iters = <<>>
    /\ passes = 0

\* construction and __len__, over every combination of the arguments that
\* construction depends on (shuffle is only stored)
Init ==
    /\ DrawArgs(Datasets(MaxLen, 1 .. MaxClasses), {FALSE}, Factors, LabelArgs, BOOLEAN,
                CallbackTypes)
    /\ NotConstructed
Next == Construct \/ CallLen
Spec == Init /\ [][Next]_vars

\* passes run one after the other
InitIter ==
    /\ DrawArgs(Datasets(IterLen, {1, 2}), BOOLEAN, IterFactors, {"flat"}, {FALSE},
                {"single"})
    /\ NotConstructed
NextSequential == Construct \/ CallLen \/ CallIterSequential \/ IterNext
SpecSequential == InitIter /\ [][NextSequential]_vars

\* passes may overlap
NextInterleaved == Construct \/ CallLen \/ CallIterOverlapping \/ IterNext
InitOverlap ==
    /\ DrawArgs(Datasets(OverlapLen, {1, 2}), BOOLEAN, IterFactors, {"flat"}, {FALSE},
                {"single"})
    /\ NotConstructed
SpecInterleaved == InitOverlap /\ [][NextInterleaved]_vars

\* ------------------------------------------------------------------ properties
\* The dataset as the caller knows it: the class of every index.
ClassIds == 0 .. args.num_classes - 1
ClassMembers(c) == {i \in 0 .. Len(args.ds) - 1 : args.ds[i + 1] = c}
ClassCard(c) == Cardinality(ClassMembers(c))
NoEmptyClass == \A c \in ClassIds : ClassMembers(c) # {}
SmallestClass == CHOOSE m \in {ClassCard(c) : c \in ClassIds} :
                    \A c \in ClassIds : m <= ClassCard(c)
LargestClass == CHOOSE m \in {ClassCard(c) : c \in ClassIds} :
                    \A c \in ClassIds : m >= ClassCard(c)

\* floor(a / b) for a >= 0 and b > 0, by its defining inequality
Floor(a, b) == CHOOSE q \in 0 .. a : q * b <= a /\ a < (q + 1) * b

\* number of entries of s equal to x
RECURSIVE Count(_, _)
Count(s, x) == IF s = <<>> THEN 0
               ELSE (IF s[1] = x THEN 1 ELSE 0) + Count(Tail(s), x)

\* the multiset of the entries of s
RECURSIVE BagOf(_)
BagOf(s) == IF s = <<>> THEN EmptyBag ELSE BagOf(Tail(s)) (+) SetToBag({s[1]})

\* number of entries of s that lie in the set S
RECURSIVE CountIn(_, _)
CountIn(s, S) == IF s = <<>> THEN 0
                 ELSE (IF s[1] \in S THEN 1 ELSE 0) + CountIn(Tail(s), S)

Constructed == status # "new"

\* the arguments give the labels as one class id per dataset index
FlatSourced ==
    /\ ~(args.labels # "none" /\ args.callback)
    /\ args.callback_type \in {"single", "multi"}
    /\ \/ args.labels = "flat"
       \/ args.labels = "none" /\ (~args.callback \/ args.callback_type = "single")

\* the arguments give the labels as one index list per class
NestedSourced ==
    /\ args.labels = "nested"
    /\ ~args.callback
    /\ args.callback_type \in {"single", "multi"}

Factor == args.sampling_factor
IsOversamplingAlias == Factor.t = "str" /\ Factor.s = "oversampling"
IsUndersamplingAlias == Factor.t = "str" /\ Factor.s = "undersampling"
IsInterpolation ==
    \/ IsOversamplingAlias
    \/ IsUndersamplingAlias
    \/ Factor.t = "float" /\ 0 <= Factor.num /\ Factor.num <= Factor.den
InterpolationNum == IF IsOversamplingAlias THEN 1
                    ELSE IF IsUndersamplingAlias THEN 0 ELSE Factor.num
InterpolationDen == IF Factor.t = "str" THEN 1 ELSE Factor.den

\* a float below 0 other than -1.0; the ratio is f = -sampling_factor
IsUndersampleMax == Factor.t = "float" /\ -Factor.den < Factor.num /\ Factor.num < 0
IsOversampleMin == Factor.t = "float" /\ Factor.num < -Factor.den
IsRatio == IsUndersampleMax \/ IsOversampleMin
RatioSize == IF IsUndersampleMax THEN Floor(LargestClass * (-Factor.num), Factor.den)
             ELSE Floor(SmallestClass * (-Factor.num), Factor.den)

DonePasses == {i \in 1 .. Len(iters) : iters[i].done}

\* the part of the built sequence that class c contributed
EmissionOf(c) == SubSeq(built, c * class_size + 1, (c + 1) * class_size)

\* C1: len() returns class_size * num_classes, the value never changes, and every
\* pass run to completion yields exactly len() items.
C1_LenConstantAndExact ==
    /\ [](status = "ok" =>
            /\ len_result \in {-1, class_size * num_classes}
            /\ class_size * num_classes = Len(built)
            /\ \A i \in DonePasses : Len(iters[i].out) = class_size * num_classes)
    /\ [][status = "ok" => class_size' * num_classes' = class_size * num_classes]_vars

C1_Witness ==
    /\ status = "ok"
    /\ len_result # -1
    /\ passes >= 2
    /\ \E i \in DonePasses : Len(iters[i].out) >= 2

\* C2: in the built sequence every class has exactly class_size entries, counted
\* with multiplicity, whether the class was oversampled or undersampled.
C2_ExactCountPerClass ==
    status = "ok" =>
        \A c \in ClassIds : CountIn(built, ClassMembers(c)) = class_size

C2_Witness ==
    /\ status = "ok"
    /\ \E c \in ClassIds : ClassCard(c) < class_size
    /\ \E c \in ClassIds : ClassCard(c) > class_size

\* C3: every original index of a class appears floor(class_size / n) or
\* floor(class_size / n) + 1 times in the class's emission; an undersampled class
\* (n > class_size) emits class_size distinct indices of its own.
C3_RepetitionBounds ==
    status = "ok" =>
        \A c \in ClassIds :
            LET n == ClassCard(c)
                em == EmissionOf(c)
                q == Floor(class_size, n)
            IN /\ \A x \in ClassMembers(c) : q <= Count(em, x) /\ Count(em, x) <= q + 1
               /\ n > class_size =>
                    /\ Len(em) = class_size
                    /\ \A j \in 1 .. Len(em) : em[j] \in ClassMembers(c)
                    /\ \A x \in ClassMembers(c) : Count(em, x) <= 1

C3_Witness ==
    /\ status = "ok"
    /\ \E c \in ClassIds :
         /\ ClassCard(c) < class_size
         /\ class_size % ClassCard(c) # 0
         /\ \E x, y \in ClassMembers(c) :
              /\ Count(EmissionOf(c), x) = Floor(class_size, ClassCard(c)) + 1
              /\ Count(EmissionOf(c), y) = Floor(class_size, ClassCard(c))

\* C4: with passes run one after the other, a pass without shuffle yields the
\* stored sequence in its built order and leaves it unchanged, so consecutive
\* passes agree; a pass with shuffle has the length and the multiset of the
\* sequence built at construction.
C4_PassesPreserveSequence ==
    status = "ok" =>
        /\ ~shuffle => indices = built
        /\ Len(indices) = Len(built)
        /\ \A i \in DonePasses :
             /\ ~shuffle => iters[i].out = built
             /\ shuffle => /\ Len(iters[i].out) = Len(built)
                           /\ BagOf(iters[i].out) = BagOf(built)

C4_Witness ==
    /\ status = "ok"
    /\ shuffle
    /\ passes >= 2
    /\ \E i \in DonePasses : Len(iters[i].out) >= 3 /\ iters[i].out # built

\* C5: a whole-number factor n >= 2 with every class non-empty gives a sampler
\* with class_size = n, whatever the smallest and largest class sizes are.
C5_FixedSizeUnconstrained ==
    (/\ Constructed
     /\ FlatSourced
     /\ NoEmptyClass
     /\ Factor.t = "int"
     /\ Factor.num >= 2)
    => status = "ok" /\ class_size = Factor.num

\* C6: per-class index lists resolve to the same class partition as the
\* equivalent flat label list: each inner list is the index set of its class.
C6_NestedLabelsResolve ==
    (/\ Constructed
     /\ NestedSourced
     /\ NoEmptyClass
     /\ IsInterpolation)
    => /\ status = "ok"
       /\ \A c \in ClassIds :
            {labels[c + 1][j] : j \in 1 .. Len(labels[c + 1])} = ClassMembers(c)

\* C7: an interpolation factor f in [0, 1] with every class non-empty always
\* gives a sampler with class_size = min_size + floor(f * (max_size - min_size)),
\* which lies in [min_size, max_size]; "undersampling" gives min_size and
\* "oversampling" gives max_size.
C7_InterpolatedSize ==
    (/\ Constructed
     /\ FlatSourced
     /\ NoEmptyClass
     /\ IsInterpolation)
    => /\ status = "ok"
       /\ class_size = SmallestClass
              + Floor(InterpolationNum * (LargestClass - SmallestClass), InterpolationDen)
       /\ SmallestClass <= class_size /\ class_size <= LargestClass
       /\ IsUndersamplingAlias => class_size = SmallestClass
       /\ IsOversamplingAlias => class_size = LargestClass

C7_Witness ==
    /\ status = "ok"
    /\ FlatSourced
    /\ Factor.t = "float" /\ 0 < Factor.num /\ Factor.num < Factor.den
    /\ (Factor.num * (LargestClass - SmallestClass)) % Factor.den # 0
    /\ class_size > SmallestClass

C9_EmptyClassFails ==
    (Constructed /\ ~NoEmptyClass)
    => /\ status = "error"
       /\ error # ""
       /\ indices = <<>>
       /\ built = <<>>

C9_Witness ==
    /\ status = "error"
    /\ error = "ZeroDivisionError"
    /\ ~NoEmptyClass
    /\ Len(args.ds) > 0

\* C10 as stated: a pass that is overlapped by the begin of another pass still
\* yields, once complete, len() items whose multiset is that of the sequence
\* built at construction.
C10_OverlappedPassKeepsMultiset ==
    (status = "ok" /\ shuffle) =>
        \A i \in DonePasses :
            /\ Len(iters[i].out) = class_size * num_classes
            /\ BagOf(iters[i].out) = BagOf(built)

\* C10 as amended: such a pass yields exactly len() items, each an index of the
\* sequence built at construction; the multiset may differ.
C10_OverlappedPassKeepsLength ==
    (status = "ok" /\ shuffle) =>
        \A i \in DonePasses :
            /\ Len(iters[i].out) = class_size * num_classes
            /\ \A j \in 1 .. Len(iters[i].out) :
                 \E k \in 1 .. Len(built) : iters[i].out[j] = built[k]

C10_Witness ==
    /\ status = "ok"
    /\ shuffle
    /\ \E i \in DonePasses :
         /\ Len(iters[i].out) = class_size * num_classes
         /\ BagOf(iters[i].out) # BagOf(built)

====
